---- MODULE Spec2Model ----
(***************************************************************************)
(* SQLAgentic: the generate -> validate -> execute -> heal loop of         *)
(* SQLAgent.execute_with_retry (src/src/sql_agent.py), with the text       *)
(* functions it calls (_extract_sql, validate_sql_safety, the two prompt   *)
(* builders) and the executor's error wrapping (src/src/db_manager.py).    *)
(*                                                                         *)
(* A text (Python str) is a sequence of one-character strings.  None is a  *)
(* value that is no text.                                                  *)
(***************************************************************************)
EXTENDS Integers, Sequences, FiniteSets, TLC

\* ------------------------------------------------------------------ bounds
\* largest max_retries a caller passes in the model (the smallest is -1)
MaxRetriesBound == 3

\* longest text of the exhaustive part of the validator's inputs
MaxTextLen == 5

\* most calls of run_query in one session of the application
MaxQueries == 2

\* most pieces a backend output of the extractor's inputs is put together from
MaxPieces == 4

\* ------------------------------------------------------------------- texts
None == <<"None">>

LowerLetters ==
  <<"a","b","c","d","e","f","g","h","i","j","k","l","m",
    "n","o","p","q","r","s","t","u","v","w","x","y","z">>

UpperLetters ==
  <<"A","B","C","D","E","F","G","H","I","J","K","L","M",
    "N","O","P","Q","R","S","T","U","V","W","X","Y","Z">>

Digits == {"0","1","2","3","4","5","6","7","8","9"}

Range(s) == {s[i] : i \in 1..Len(s)}

\* regex \w on the characters of the model: letters, digits, underscore
WordChars == Range(LowerLetters) \cup Range(UpperLetters) \cup Digits \cup {"_"}

\* regex \s and the characters str.strip() removes
Whitespace == {" ", "\n", "\t"}

\* str.upper() on one character
UpperChar(c) ==
  IF c \in Range(LowerLetters)
    THEN UpperLetters[CHOOSE i \in 1..Len(LowerLetters) : LowerLetters[i] = c]
    ELSE c

\* str.upper()
upper(s) == [i \in 1..Len(s) |-> UpperChar(s[i])]

RECURSIVE lstrip(_)
lstrip(s) == IF s # <<>> /\ Head(s) \in Whitespace THEN lstrip(Tail(s)) ELSE s

RECURSIVE rstrip(_)
rstrip(s) ==
  IF s # <<>> /\ s[Len(s)] \in Whitespace THEN rstrip(SubSeq(s, 1, Len(s) - 1)) ELSE s

\* str.strip()
strip(s) == rstrip(lstrip(s))

\* sub occurs in s starting at index i
IsAt(sub, s, i) ==
  /\ i >= 1
  /\ i + Len(sub) - 1 <= Len(s)
  /\ SubSeq(s, i, i + Len(sub) - 1) = sub

\* index of the first occurrence of sub in s at or after index from; 0 if none
Find(sub, s, from) ==
  LET hits == {i \in from..(Len(s) - Len(sub) + 1) : IsAt(sub, s, i)}
  IN  IF hits = {} THEN 0 ELSE CHOOSE i \in hits : \A j \in hits : i <= j

\* ------------------------------------------------------ validate_sql_safety
DESTRUCTIVE_KEYWORDS ==
  << <<"D","R","O","P">>,
     <<"D","E","L","E","T","E">>,
     <<"U","P","D","A","T","E">>,
     <<"T","R","U","N","C","A","T","E">>,
     <<"A","L","T","E","R">>,
     <<"I","N","S","E","R","T">>,
     <<"C","R","E","A","T","E">>,
     <<"G","R","A","N","T">>,
     <<"R","E","V","O","K","E">>,
     <<"E","X","E","C">>,
     <<"E","X","E","C","U","T","E">> >>

\* regex \b at the gap before index i of s (i = Len(s)+1: the end of s)
WordBoundary(s, i) ==
  LET before == i > 1 /\ s[i - 1] \in WordChars
      after  == i <= Len(s) /\ s[i] \in WordChars
  IN  before # after

\* re.search(r'\b' + keyword + r'\b', s)
re_search_word(keyword, s) ==
  \E i \in 1..Len(s) :
    /\ IsAt(keyword, s, i)
    /\ WordBoundary(s, i)
    /\ WordBoundary(s, i + Len(keyword))

\* validate_sql_safety with the call of upper() left out
validate_sql_safety_case_sensitive(sql) ==
  LET hits == {k \in 1..Len(DESTRUCTIVE_KEYWORDS) :
                 re_search_word(DESTRUCTIVE_KEYWORDS[k], sql)}
  IN  IF hits = {} THEN None
      ELSE DESTRUCTIVE_KEYWORDS[CHOOSE k \in hits : \A j \in hits : k <= j]

\* validate_sql_safety naming the last keyword of the list that matches
validate_sql_safety_last_match(sql) ==
  LET sql_upper == upper(sql)
      hits == {k \in 1..Len(DESTRUCTIVE_KEYWORDS) :
                 re_search_word(DESTRUCTIVE_KEYWORDS[k], sql_upper)}
  IN  IF hits = {} THEN None
      ELSE DESTRUCTIVE_KEYWORDS[CHOOSE k \in hits : \A j \in hits : k >= j]

\* validate_sql_safety: None when it returns True, else the keyword named in
\* the SafetyViolationError it raises (the first of the list that matches)
validate_sql_safety(sql) ==
  LET sql_upper == upper(sql)
      hits == {k \in 1..Len(DESTRUCTIVE_KEYWORDS) :
                 re_search_word(DESTRUCTIVE_KEYWORDS[k], sql_upper)}
  IN  IF hits = {} THEN None
      ELSE DESTRUCTIVE_KEYWORDS[CHOOSE k \in hits : \A j \in hits : k <= j]

\* ------------------------------------------------------------- _extract_sql
\* the backquote character (U+0060), which a TLA+ string cannot hold
Backquote == "BQ"

Fence == <<Backquote, Backquote, Backquote>>

SqlTag == <<"S","Q","L">>

\* index after the run of whitespace that starts at index i of s
RECURSIVE SkipWhitespace(_, _)
SkipWhitespace(s, i) ==
  IF i <= Len(s) /\ s[i] \in Whitespace THEN SkipWhitespace(s, i + 1) ELSE i

\* first index t >= lo such that s[t..hi] is all whitespace
RECURSIVE BackWhitespace(_, _, _)
BackWhitespace(s, lo, hi) ==
  IF hi >= lo /\ s[hi] \in Whitespace THEN BackWhitespace(s, lo, hi - 1) ELSE hi + 1

\* re.findall(r'```(?:sql)?\s*(.*?)\s*```', s, re.DOTALL | re.IGNORECASE):
\* <<group>> of the leftmost match, <<>> when nothing matches
first_code_block(s) ==
  LET opens == {p \in 1..Len(s) : IsAt(Fence, s, p) /\ Find(Fence, s, p + 3) # 0}
  IN  IF opens = {} THEN <<>>
      ELSE
        LET p     == CHOOSE x \in opens : \A y \in opens : x <= y
            tagged == IsAt(SqlTag, upper(s), p + 3)
            r     == SkipWhitespace(s, IF tagged THEN p + 6 ELSE p + 3)
            q     == Find(Fence, s, r)
            t     == BackWhitespace(s, r, q - 1)
        IN  << SubSeq(s, r, t - 1) >>

separators ==
  << <<"\n","\n","T","h","i","s"," ","q","u","e","r","y">>,
     <<"\n","\n","E","x","p","l","a","n","a","t","i","o","n">>,
     <<"\n","\n","N","o","t","e",":">> >>

\* one turn of the separator loop without the call of strip()
cut_at_unstripped(sql, separator) ==
  LET i == Find(separator, sql, 1)
  IN  IF i = 0 THEN sql ELSE SubSeq(sql, 1, i - 1)

\* one turn of the separator loop: sql.split(separator)[0].strip() when the
\* separator occurs in sql
cut_at(sql, separator) ==
  LET i == Find(separator, sql, 1)
  IN  IF i = 0 THEN sql ELSE strip(SubSeq(sql, 1, i - 1))

_extract_sql(response_text) ==
  LET sql0    == strip(response_text)
      matches == first_code_block(sql0)
      sql1    == IF matches # <<>> THEN strip(matches[1]) ELSE sql0
      sql2    == strip(sql1)
  IN  cut_at(cut_at(cut_at(sql2, separators[1]), separators[2]), separators[3])

\* ------------------------------------------------------- generate_safe_sql
\* Python truthiness of an Optional[str]: neither None nor the empty string
Truthy(x) == x # None /\ x # <<>>

\* _build_initial_prompt: the f-string's fixed wording around the embedded
\* values; the record names the template and holds each embedded value
_build_initial_prompt(schema, question) ==
  [template |-> "initial", schema_context |-> schema, user_query |-> question]

\* _build_healing_prompt
_build_healing_prompt(schema, question, prev_sql, error) ==
  [template |-> "healing", schema_context |-> schema, user_query |-> question,
   previous_sql |-> prev_sql, error_message |-> error]

\* the prompt generate_safe_sql sends: healing only when both optional
\* arguments are truthy
build_prompt(schema, question, prev_sql, error) ==
  IF Truthy(prev_sql) /\ Truthy(error)
    THEN _build_healing_prompt(schema, question, prev_sql, error)
    ELSE _build_initial_prompt(schema, question)

\* ------------------------------------------------------------ the backends
\* "SELECT 1"
RespSelect == <<"S","E","L","E","C","T"," ","1">>

\* a fenced block tagged sql around "select a"
RespFenced ==
  Fence \o <<"s","q","l","\n","s","e","l","e","c","t"," ","a","\n">> \o Fence

\* "drop t"
RespDrop == <<"d","r","o","p"," ","t">>

\* the empty response
RespEmpty == <<>>

\* what the generation backend answers (response['message']['content'])
Responses == {RespSelect, RespFenced, RespDrop, RespEmpty}

\* str(e) of what the generation call raises: "g1", or an exception without
\* arguments, whose str() is empty
GenerationErrors == { <<"g","1">>, <<>> }

\* str(e) of what the database driver raises for the statement query: a
\* message of its own, or one that quotes the statement
DriverErrors(query) == { <<"e","1">>, <<"e","2",":">> \o query }

\* the data frames the store returns: no row, one row
Frames == { <<>>, <<"row">> }

Questions == { <<"q","?">> }

SchemaText == <<"T","(","a",")">>

\* execute_query's wrapping: Exception(f"SQL Error: {error_msg}")
sql_error(error_msg) ==
  <<"S","Q","L"," ","E","r","r","o","r",":"," ">> \o error_msg

\* --------------------------------------------------------------- the state
VARIABLES
  pc,              \* stage of the run of execute_with_retry
  schema_context,  \* SQLAgent.schema_context
  user_query,      \* argument of execute_with_retry
  max_retries,     \* argument of execute_with_retry
  attempt,         \* loop variable; 0 before the loop starts
  previous_sql,    \* local
  error_message,   \* local
  sql,             \* local; Unbound until first assigned
  df,              \* local; Unbound until first assigned
  outcome,         \* what the call returned or raised
  log,             \* the calls made so far and what they answered
  suspended,       \* the other call running on the same agent, not scheduled
  finished,        \* how the calls that ended earlier on the agent ended
  model_name,      \* SQLAgent.model_name
  base_url,        \* SQLAgent.base_url
  app_pc,          \* where BackupDBAgent.interactive_loop stands
  MAX_RETRY_ATTEMPTS,    \* the environment variable; None when not set
  history,         \* the rows of QueryHistory's table queries, by id
  last_result,     \* BackupDBAgent.last_result
  current_query_folder,  \* BackupDBAgent.current_query_folder; 0 for None
  folders,         \* the folders artifacts/query_* made so far: what each holds
  query_metrics,   \* PerformanceMonitor.query_metrics
  current_query_start,   \* PerformanceMonitor.current_query_start
  show_insights,   \* BackupDBAgent.show_insights
  user_input,      \* the line interactive_loop read last
  handled          \* the handlers called for user_input, in order

\* the state of the application around the agent
application ==
  <<model_name, base_url, app_pc, MAX_RETRY_ATTEMPTS, history, last_result,
    current_query_folder, folders, query_metrics, current_query_start,
    show_insights, user_input, handled>>

vars == <<pc, schema_context, user_query, max_retries, attempt, previous_sql,
          error_message, sql, df, outcome, log, suspended, finished, application>>

\* a local name that has no binding yet
Unbound == <<"Unbound">>

Terminal == {"Succeeded", "FailedFatal", "FailedExhausted", "ReturnedNone"}

\* a call that has not started: no argument, no local is bound
IdleFrame ==
  [pc |-> "Idle", user_query |-> None, max_retries |-> 0, attempt |-> 0,
   previous_sql |-> None, error_message |-> None, sql |-> Unbound,
   df |-> Unbound, outcome |-> [kind |-> "pending"],
   log |-> [gen |-> <<>>, genRet |-> <<>>, val |-> <<>>, exec |-> <<>>,
            execRet |-> <<>>]]

\* OLLAMA_MODEL and OLLAMA_BASE_URL as main.py defaults them
ModelName == <<"d","e","e","p","s","e","e","k">>

BaseUrl == <<"l","o","c","a","l","h","o","s","t">>

\* an agent that no application drives: BackupDBAgent.__init__ has set every
\* component to None and nothing reads a line
NoApplication ==
  /\ model_name = ModelName
  /\ base_url = BaseUrl
  /\ app_pc = "none"
  /\ MAX_RETRY_ATTEMPTS = None
  /\ history = <<>>
  /\ last_result = [query_id |-> 0, df |-> None, sql |-> None, user_query |-> None]
  /\ current_query_folder = 0
  /\ folders = <<>>
  /\ query_metrics = <<>>
  /\ current_query_start = "None"
  /\ show_insights = TRUE
  /\ user_input = None
  /\ handled = <<>>

Init ==
  /\ pc = "Idle"
  /\ schema_context = SchemaText
  /\ user_query = None
  /\ max_retries = 0
  /\ attempt = 0
  /\ previous_sql = None
  /\ error_message = None
  /\ sql = Unbound
  /\ df = Unbound
  /\ outcome = [kind |-> "pending"]
  /\ log = [gen |-> <<>>, genRet |-> <<>>, val |-> <<>>, exec |-> <<>>, execRet |-> <<>>]
  /\ suspended = IdleFrame
  /\ finished = {}
  /\ NoApplication

\* ------------------------------------------------------ execute_with_retry
\* the call: the arguments are bound and the two locals set to None
execute_with_retry(question, n) ==
  /\ pc = "Idle"
  /\ UNCHANGED <<suspended, finished, application>>
  /\ pc' = "Loop"
  /\ user_query' = question
  /\ max_retries' = n
  /\ previous_sql' = None
  /\ error_message' = None
  /\ UNCHANGED <<schema_context, attempt, sql, df, outcome, log>>

\* range(1, max_retries + 1) with max_retries + 2 as its end
attempt_range_one_more(n) == 1..(n + 1)

\* range(1, max_retries + 1)
attempt_range(n) == 1..n

\* the for statement takes the next attempt; generate_safe_sql builds the
\* prompt and calls the backend
NextAttempt ==
  /\ pc = "Loop"
  /\ UNCHANGED <<suspended, finished, application>>
  /\ attempt + 1 \in attempt_range(max_retries)
  /\ attempt' = attempt + 1
  /\ log' = [log EXCEPT !.gen = Append(@,
               [attempt       |-> attempt + 1,
                previous_sql  |-> previous_sql,
                error_message |-> error_message,
                prompt        |-> build_prompt(schema_context, user_query,
                                               previous_sql, error_message)])]
  /\ pc' = "Generating"
  /\ UNCHANGED <<schema_context, user_query, max_retries, previous_sql,
                 error_message, sql, df, outcome>>

\* the range is used up: the function ends without a return statement
LoopExhausted ==
  /\ pc = "Loop"
  /\ UNCHANGED <<suspended, finished, application>>
  /\ attempt + 1 \notin attempt_range(max_retries)
  /\ pc' = "ReturnedNone"
  /\ outcome' = [kind |-> "return", value |-> None]
  /\ UNCHANGED <<schema_context, user_query, max_retries, attempt, previous_sql,
                 error_message, sql, df, log>>

\* the backend answers; generate_safe_sql returns the extracted text
chat_returns(response_text) ==
  /\ pc = "Generating"
  /\ UNCHANGED <<suspended, finished, application>>
  /\ sql' = _extract_sql(response_text)
  /\ log' = [log EXCEPT !.genRet = Append(@,
               [attempt |-> attempt, raised |-> FALSE,
                value |-> _extract_sql(response_text)])]
  /\ pc' = "Validating"
  /\ UNCHANGED <<schema_context, user_query, max_retries, attempt, previous_sql,
                 error_message, df, outcome>>

\* line 239 without the test of locals()
sql_unguarded == sql

\* line 239: sql if 'sql' in locals() else None
sql_if_in_locals == IF sql # Unbound THEN sql ELSE None

\* line 245 with the error message of before this attempt
exhausted_error_stale(n, message) ==
  [kind |-> "raise", type |-> "Exception", attempts |-> n,
   last_error |-> error_message]

\* line 245 naming the attempt before the last
exhausted_error_off_by_one(n, message) ==
  [kind |-> "raise", type |-> "Exception", attempts |-> n - 1,
   last_error |-> message]

\* line 245: Exception(f"Failed after {max_retries} attempts. Last error:
\* {error_message}"); the record holds the two embedded values
exhausted_error(n, message) ==
  [kind |-> "raise", type |-> "Exception", attempts |-> n,
   last_error |-> message]

\* the except Exception clause with line 238 left out: the error message of
\* the attempt before is sent again
except_Exception_keeps_error(str_e) ==
  /\ error_message' = error_message
  /\ previous_sql' = sql_if_in_locals
  /\ IF attempt = max_retries
       THEN /\ pc' = "FailedExhausted"
            /\ outcome' = exhausted_error(max_retries, str_e)
       ELSE /\ pc' = "Loop"
            /\ UNCHANGED outcome

\* the except Exception clause raising on the first failure
except_Exception_no_retry(str_e) ==
  /\ error_message' = str_e
  /\ previous_sql' = sql_if_in_locals
  /\ pc' = "FailedExhausted"
  /\ outcome' = exhausted_error(max_retries, str_e)

\* the except Exception clause, str_e being str(e)
except_Exception(str_e) ==
  /\ error_message' = str_e
  /\ previous_sql' = sql_if_in_locals
  /\ IF attempt = max_retries
       THEN /\ pc' = "FailedExhausted"
            /\ outcome' = exhausted_error(max_retries, str_e)
       ELSE /\ pc' = "Loop"
            /\ UNCHANGED outcome

\* the backend call raises; generate_safe_sql re-raises
chat_raises(str_e) ==
  /\ pc = "Generating"
  /\ UNCHANGED <<suspended, finished, application>>
  /\ log' = [log EXCEPT !.genRet = Append(@,
               [attempt |-> attempt, raised |-> TRUE, value |-> str_e])]
  /\ except_Exception(str_e)
  /\ UNCHANGED <<schema_context, user_query, max_retries, attempt, sql, df>>

\* the except SafetyViolationError clause treated like except Exception
except_SafetyViolationError_retried(keyword) ==
  /\ error_message' = keyword
  /\ previous_sql' = sql
  /\ IF attempt = max_retries
       THEN /\ pc' = "FailedExhausted"
            /\ outcome' = exhausted_error(max_retries, keyword)
       ELSE /\ pc' = "Loop"
            /\ UNCHANGED outcome

\* the except SafetyViolationError clause: re-raise; the message names keyword
except_SafetyViolationError(keyword) ==
  /\ pc' = "FailedFatal"
  /\ outcome' = [kind |-> "raise", type |-> "SafetyViolationError",
                 keyword |-> keyword]
  /\ UNCHANGED <<previous_sql, error_message>>

\* validate_sql_safety returns True; db_manager.execute_query(sql) is called
validate_passes ==
  /\ pc = "Validating"
  /\ UNCHANGED <<suspended, finished, application>>
  /\ validate_sql_safety(sql) = None
  /\ log' = [log EXCEPT
               !.val  = Append(@, [attempt |-> attempt, sql |-> sql, keyword |-> None]),
               !.exec = Append(@, [attempt |-> attempt, sql |-> sql])]
  /\ pc' = "Executing"
  /\ UNCHANGED <<schema_context, user_query, max_retries, attempt, previous_sql,
                 error_message, sql, df, outcome>>

\* the query is handed to the store before the violation is raised
validate_raises_after_execute ==
  /\ pc = "Validating"
  /\ UNCHANGED <<suspended, finished, application>>
  /\ validate_sql_safety(sql) # None
  /\ log' = [log EXCEPT
               !.val  = Append(@, [attempt |-> attempt, sql |-> sql,
                                   keyword |-> validate_sql_safety(sql)]),
               !.exec = Append(@, [attempt |-> attempt, sql |-> sql])]
  /\ except_SafetyViolationError(validate_sql_safety(sql))
  /\ UNCHANGED <<schema_context, user_query, max_retries, attempt, sql, df>>

\* validate_sql_safety raises SafetyViolationError
validate_raises ==
  /\ pc = "Validating"
  /\ UNCHANGED <<suspended, finished, application>>
  /\ validate_sql_safety(sql) # None
  /\ log' = [log EXCEPT !.val = Append(@,
               [attempt |-> attempt, sql |-> sql,
                keyword |-> validate_sql_safety(sql)])]
  /\ except_SafetyViolationError(validate_sql_safety(sql))
  /\ UNCHANGED <<schema_context, user_query, max_retries, attempt, sql, df>>

\* line 230 returning the query of the previous attempt
return_value_previous(frame, query) == <<frame, previous_sql>>

\* line 230: return df, sql
return_value(frame, query) == <<frame, query>>

\* the store answers and the agent itself records a performance metric
execute_query_returns_recording(frame) ==
  /\ pc = "Executing"
  /\ df' = frame
  /\ log' = [log EXCEPT !.execRet = Append(@,
               [attempt |-> attempt, raised |-> FALSE, value |-> frame])]
  /\ pc' = "Succeeded"
  /\ outcome' = [kind |-> "return", value |-> <<frame, sql>>]
  /\ query_metrics' = Append(query_metrics,
       [query |-> sql, rows_returned |-> Len(frame), success |-> TRUE])
  /\ UNCHANGED <<schema_context, user_query, max_retries, attempt, previous_sql,
                 error_message, sql, suspended, finished, model_name, base_url,
                 app_pc, MAX_RETRY_ATTEMPTS, history, last_result,
                 current_query_folder, folders, current_query_start,
                 show_insights, user_input, handled>>

\* the store answers with a data frame; execute_with_retry returns
execute_query_returns(frame) ==
  /\ pc = "Executing"
  /\ UNCHANGED <<suspended, finished, application>>
  /\ df' = frame
  /\ log' = [log EXCEPT !.execRet = Append(@,
               [attempt |-> attempt, raised |-> FALSE, value |-> frame])]
  /\ pc' = "Succeeded"
  /\ outcome' = [kind |-> "return", value |-> return_value(frame, sql)]
  /\ UNCHANGED <<schema_context, user_query, max_retries, attempt, previous_sql,
                 error_message, sql>>

\* the store fails; execute_query raises Exception("SQL Error: ...")
execute_query_raises(error_msg) ==
  /\ pc = "Executing"
  /\ UNCHANGED <<suspended, finished, application>>
  /\ log' = [log EXCEPT !.execRet = Append(@,
               [attempt |-> attempt, raised |-> TRUE, value |-> sql_error(error_msg)])]
  /\ except_Exception(sql_error(error_msg))
  /\ UNCHANGED <<schema_context, user_query, max_retries, attempt, sql, df>>

Next ==
  \/ \E question \in Questions, n \in (-1)..MaxRetriesBound :
       execute_with_retry(question, n)
  \/ NextAttempt
  \/ LoopExhausted
  \/ \E response_text \in Responses : chat_returns(response_text)
  \/ \E str_e \in GenerationErrors : chat_raises(str_e)
  \/ validate_passes
  \/ validate_raises
  \/ \E frame \in Frames : execute_query_returns(frame)
  \/ \E error_msg \in DriverErrors(sql) : execute_query_raises(error_msg)

Spec == Init /\ [][Next]_vars

\* the run keeps going: every call of the backend and of the store comes
\* back, with a value or with an error
FairSpec == Spec /\ WF_vars(Next)

\* ------------------------------------------------- calls on the same agent
\* the names of execute_with_retry with previous_sql and error_message kept
\* on the agent instead of in the call
call_locals_shared_context ==
  {"user_query", "max_retries", "attempt", "sql", "df"}

\* the names that belong to one call of execute_with_retry: its parameters
\* and the names it assigns; the agent holds none of them
call_locals ==
  {"user_query", "max_retries", "attempt", "previous_sql", "error_message",
   "sql", "df"}

\* the value of a name after the running call changes: the value the call
\* coming in holds if the name belongs to the call, else the value it has
bound(name, of_call, of_agent) == IF name \in call_locals THEN of_call ELSE of_agent

\* the scheduler suspends the running call and resumes the other one
switch_run ==
  /\ pc' = suspended.pc
  /\ outcome' = suspended.outcome
  /\ log' = suspended.log
  /\ user_query' = bound("user_query", suspended.user_query, user_query)
  /\ max_retries' = bound("max_retries", suspended.max_retries, max_retries)
  /\ attempt' = bound("attempt", suspended.attempt, attempt)
  /\ previous_sql' = bound("previous_sql", suspended.previous_sql, previous_sql)
  /\ error_message' = bound("error_message", suspended.error_message, error_message)
  /\ sql' = bound("sql", suspended.sql, sql)
  /\ df' = bound("df", suspended.df, df)
  /\ suspended' =
       [pc |-> pc, user_query |-> user_query, max_retries |-> max_retries,
        attempt |-> attempt, previous_sql |-> previous_sql,
        error_message |-> error_message, sql |-> sql, df |-> df,
        outcome |-> outcome, log |-> log]
  /\ UNCHANGED <<schema_context, finished, application>>

\* the running call has returned or raised: its names are gone, and the
\* caller may call the agent again
call_ends ==
  /\ pc \in Terminal
  /\ finished' = finished \cup {pc}
  /\ pc' = "Idle"
  /\ outcome' = IdleFrame.outcome
  /\ log' = IdleFrame.log
  /\ user_query' = bound("user_query", IdleFrame.user_query, user_query)
  /\ max_retries' = bound("max_retries", IdleFrame.max_retries, max_retries)
  /\ attempt' = bound("attempt", IdleFrame.attempt, attempt)
  /\ previous_sql' = bound("previous_sql", IdleFrame.previous_sql, previous_sql)
  /\ error_message' = bound("error_message", IdleFrame.error_message, error_message)
  /\ sql' = bound("sql", IdleFrame.sql, sql)
  /\ df' = bound("df", IdleFrame.df, df)
  /\ UNCHANGED <<schema_context, suspended, application>>

\* the inputs of the calls that share an agent
RunQuestions == { <<"q","1">>, <<"q","2">> }

RunRetries == {0, 1, 2}

RunResponses == {RespSelect, RespDrop}

RunGenerationErrors == { <<"g","1">> }

RunFrames == { <<"row">> }

RunDriverErrors == { <<"e","1">> }

NextRuns ==
  \/ \E question \in RunQuestions, n \in RunRetries :
       execute_with_retry(question, n)
  \/ NextAttempt
  \/ LoopExhausted
  \/ \E response_text \in RunResponses : chat_returns(response_text)
  \/ \E str_e \in RunGenerationErrors : chat_raises(str_e)
  \/ validate_passes
  \/ validate_raises
  \/ \E frame \in RunFrames : execute_query_returns(frame)
  \/ \E error_msg \in RunDriverErrors : execute_query_raises(error_msg)
  \/ switch_run
  \/ call_ends

\* two callers use one agent, their calls interleaved step by step, and
\* each calls again when its call has ended
SpecRuns == Init /\ [][NextRuns]_vars

\* ------------------------------------------------- reading the call log
GenCount == Len(log.gen)

ExecCount == Len(log.exec)

\* attempt k ended because the generation call raised
GenRaised(k) == k <= Len(log.genRet) /\ log.genRet[k].raised

ExecRetIdx(k) == {j \in 1..Len(log.execRet) : log.execRet[j].attempt = k}

\* attempt k ended because the store failed
ExecRaised(k) == \E j \in ExecRetIdx(k) : log.execRet[j].raised

\* attempt k ended in a retryable failure
Failed(k) == GenRaised(k) \/ ExecRaised(k)

\* the error message attempt k ended with (None: it did not fail that way)
ErrorOf(k) ==
  IF GenRaised(k) THEN log.genRet[k].value
  ELSE IF ExecRaised(k) THEN log.execRet[CHOOSE j \in ExecRetIdx(k) : TRUE].value
  ELSE None

\* the query text attempt k generated (None: generation failed or is pending)
TextOf(k) ==
  IF k <= Len(log.genRet) /\ ~log.genRet[k].raised THEN log.genRet[k].value ELSE None

\* text needle occurs in text hay
Contains(hay, needle) == needle = <<>> \/ Find(needle, hay, 1) # 0

\* the prompt embeds text t as its previous query / as its error message
PromptHasQuery(p, t) == t = <<>> \/ (p.template = "healing" /\ p.previous_sql = t)

PromptHasError(p, e) == e = <<>> \/ (p.template = "healing" /\ p.error_message = e)

\* str.lower() on one character
LowerChar(c) ==
  IF c \in Range(UpperLetters)
    THEN LowerLetters[CHOOSE i \in 1..Len(UpperLetters) : UpperLetters[i] = c]
    ELSE c

\* text t has a whole-word occurrence of a blocked keyword, compared without
\* regard to case: stated on the text itself, letter by letter
ContainsBlockedWord(t) ==
  \E k \in 1..Len(DESTRUCTIVE_KEYWORDS) :
    LET kw == DESTRUCTIVE_KEYWORDS[k]
        n  == Len(kw)
    IN  \E i \in 1..(Len(t) - n + 1) :
          /\ \A j \in 1..n : LowerChar(t[i + j - 1]) = LowerChar(kw[j])
          /\ (i = 1 \/ t[i - 1] \notin WordChars)
          /\ (i + n > Len(t) \/ t[i + n] \notin WordChars)

Max0(n) == IF n < 0 THEN 0 ELSE n

\* the attempts on which the validator reported a violation
Violations == {i \in 1..Len(log.val) : log.val[i].keyword # None}

\* ------------------------------------- validate_sql_safety called directly
\* the characters of the exhaustive inputs: the letters of "drop" in both
\* cases, an underscore and a bracket
ValidatorAlphabet == {"d", "R", "o", "p", "_", "("}

\* every text over ValidatorAlphabet of at most MaxTextLen characters
ShortTexts == UNION {[1..k -> ValidatorAlphabet] : k \in 0..MaxTextLen}

\* what stands next to a word: nothing, whitespace, an underscore, brackets,
\* quotes, punctuation, a letter, a digit
Neighbours ==
  { <<>>, <<" ">>, <<"\n">>, <<"_">>, <<"(">>, <<")">>, <<"[">>, <<"'">>,
    <<"\"">>, <<";">>, <<".">>, <<"x">>, <<"1">> }

\* keyword kw in lower case, and with lower and upper case alternating
lower(s) == [i \in 1..Len(s) |-> LowerChar(s[i])]

alternating(s) == [i \in 1..Len(s) |-> IF i % 2 = 0 THEN s[i] ELSE LowerChar(s[i])]

TableWord == <<"T","A","B","L","E">>

\* the words of the structured inputs: every keyword in three casings,
\* "DROP TABLE" alone and after or before another keyword, and words that
\* only begin like a keyword
Words ==
  UNION { {DESTRUCTIVE_KEYWORDS[k], lower(DESTRUCTIVE_KEYWORDS[k]),
           alternating(DESTRUCTIVE_KEYWORDS[k])} :
          k \in 1..Len(DESTRUCTIVE_KEYWORDS) }
  \cup { DESTRUCTIVE_KEYWORDS[1] \o <<" ">> \o TableWord,
         lower(DESTRUCTIVE_KEYWORDS[1] \o <<" ">> \o TableWord),
         lower(DESTRUCTIVE_KEYWORDS[2]) \o <<" ">> \o DESTRUCTIVE_KEYWORDS[1]
           \o <<" ">> \o TableWord,
         alternating(DESTRUCTIVE_KEYWORDS[1]) \o <<"\n">> \o lower(TableWord)
           \o <<";">> \o lower(DESTRUCTIVE_KEYWORDS[10]),
         <<"d","r","o","p","s">>, <<"U","p","d","a","t","e","d">>,
         <<"s","e","l","e","c","t">>, TableWord }

\* the texts validate_sql_safety is called with
ValidatorInputs ==
  ShortTexts \cup {a \o w \o b : a \in Neighbours, w \in Words, b \in Neighbours}

\* a caller holds a text and calls agent.validate_sql_safety(sql)
InitValidate ==
  /\ pc = "validate_sql_safety"
  /\ schema_context = SchemaText
  /\ user_query = None
  /\ max_retries = 0
  /\ attempt = 0
  /\ previous_sql = None
  /\ error_message = None
  /\ sql \in ValidatorInputs
  /\ df = Unbound
  /\ outcome = [kind |-> "pending"]
  /\ log = [gen |-> <<>>, genRet |-> <<>>, val |-> <<>>, exec |-> <<>>, execRet |-> <<>>]
  /\ suspended = IdleFrame
  /\ finished = {}
  /\ NoApplication

\* line 196: return True
validate_sql_safety_returns ==
  /\ pc = "validate_sql_safety"
  /\ UNCHANGED <<suspended, finished, application>>
  /\ validate_sql_safety(sql) = None
  /\ pc' = "Returned"
  /\ outcome' = [kind |-> "return", value |-> TRUE]
  /\ UNCHANGED <<schema_context, user_query, max_retries, attempt, previous_sql,
                 error_message, sql, df, log>>

\* lines 189-194: raise SafetyViolationError naming the keyword
validate_sql_safety_raises ==
  /\ pc = "validate_sql_safety"
  /\ UNCHANGED <<suspended, finished, application>>
  /\ validate_sql_safety(sql) # None
  /\ pc' = "Raised"
  /\ outcome' = [kind |-> "raise", type |-> "SafetyViolationError",
                 keyword |-> validate_sql_safety(sql)]
  /\ UNCHANGED <<schema_context, user_query, max_retries, attempt, previous_sql,
                 error_message, sql, df, log>>

NextValidate == validate_sql_safety_returns \/ validate_sql_safety_raises

SpecValidate == InitValidate /\ [][NextValidate]_vars

\* -------------------------------------------- _extract_sql called directly
\* what a backend output is put together from: a fence, the letters of a
\* language tag, whitespace, the three explanation markers, a word
Pieces ==
  { Fence, SqlTag, lower(SqlTag), <<"t">>, <<"\n">>, <<" ">>, <<"a">>,
    separators[1], separators[2], separators[3] }

RECURSIVE Joined(_)
Joined(n) ==
  IF n = 0 THEN { <<>> }
  ELSE Joined(n - 1) \cup {t \o piece : t \in Joined(n - 1), piece \in Pieces}

\* the language tags after an opening fence: none, sql in two casings, tsql
Tags == { <<>>, lower(SqlTag), SqlTag, <<"t","s","q","l">> }

\* the query texts a fenced block encloses
EnclosedQueries == { <<"S","E","L","E","C","T"," ","1">>, <<"a","\n","b">> }

\* a fenced block around a query text, with or without a tag
FencedResponses ==
  { Fence \o tag \o w1 \o Q \o w2 \o Fence :
      tag \in Tags, w1 \in { <<"\n">>, <<" ">> }, Q \in EnclosedQueries,
      w2 \in { <<>>, <<"\n">> } }

\* the texts _extract_sql is called with
ExtractorInputs == Joined(MaxPieces) \cup FencedResponses \cup Responses

\* a caller holds a backend output and calls agent._extract_sql(response_text)
InitExtract ==
  /\ pc = "_extract_sql"
  /\ schema_context = SchemaText
  /\ user_query = None
  /\ max_retries = 0
  /\ attempt = 0
  /\ previous_sql = None
  /\ error_message = None
  /\ sql \in ExtractorInputs
  /\ df = Unbound
  /\ outcome = [kind |-> "pending"]
  /\ log = IdleFrame.log
  /\ suspended = IdleFrame
  /\ finished = {}
  /\ NoApplication

\* line 170: return sql
_extract_sql_returns ==
  /\ pc = "_extract_sql"
  /\ pc' = "Extracted"
  /\ outcome' = [kind |-> "return", value |-> _extract_sql(sql)]
  /\ UNCHANGED <<schema_context, user_query, max_retries, attempt, previous_sql,
                 error_message, sql, df, log, suspended, finished, application>>

\* the caller passes what it got to _extract_sql once more
_extract_sql_called_on_result ==
  /\ pc = "Extracted"
  /\ pc' = "_extract_sql_again"
  /\ sql' = outcome.value
  /\ outcome' = [kind |-> "pending"]
  /\ UNCHANGED <<schema_context, user_query, max_retries, attempt, previous_sql,
                 error_message, df, log, suspended, finished, application>>

\* line 170 of the second call
_extract_sql_returns_again ==
  /\ pc = "_extract_sql_again"
  /\ pc' = "ExtractedAgain"
  /\ outcome' = [kind |-> "return", value |-> _extract_sql(sql)]
  /\ UNCHANGED <<schema_context, user_query, max_retries, attempt, previous_sql,
                 error_message, sql, df, log, suspended, finished, application>>

NextExtract ==
  \/ _extract_sql_returns
  \/ _extract_sql_called_on_result
  \/ _extract_sql_returns_again

SpecExtract == InitExtract /\ [][NextExtract]_vars

\* ------------------------------------------------------- the application
\* the default of the parameter max_retries of execute_with_retry
DEFAULT_MAX_RETRIES == 3

\* BackupDBAgent.last_result when it is None
NoResult == [query_id |-> 0, df |-> None, sql |-> None, user_query |-> None]

\* str.startswith
startswith(s, prefix) == IsAt(prefix, s, 1)

\* str.split(): the words between runs of whitespace
RECURSIVE split(_)
split(s) ==
  LET t == lstrip(s)
  IN  IF t = <<>> THEN <<>>
      ELSE LET ends == {i \in 1..Len(t) : t[i] \in Whitespace}
               n    == IF ends = {} THEN Len(t) + 1
                       ELSE CHOOSE i \in ends : \A j \in ends : i <= j
           IN  <<SubSeq(t, 1, n - 1)>> \o split(SubSeq(t, n, Len(t)))

\* ' '.join(words)
RECURSIVE join(_)
join(words) ==
  IF words = <<>> THEN <<>>
  ELSE IF Len(words) = 1 THEN words[1]
  ELSE words[1] \o <<" ">> \o join(Tail(words))

\* str.isdigit()
isdigit(w) == w # <<>> /\ \A i \in 1..Len(w) : w[i] \in Digits

DigitChars == <<"0","1","2","3","4","5","6","7","8","9">>

\* int(w) for a text of decimal digits
RECURSIVE int(_)
int(w) ==
  IF w = <<>> THEN 0
  ELSE 10 * int(SubSeq(w, 1, Len(w) - 1))
       + (CHOOSE d \in 0..9 : DigitChars[d + 1] = w[Len(w)])

\* a call of a handler, its argument as the text it was typed as
Call(name, arg) == [call |-> name, arg |-> arg, returns |-> "None"]

\* no handler is called
NoCall == Call("None", None)

\* handle_command(command): what it returns ("ValueError": int() raised
\* instead) and the handler it calls
\* (line 384: show_history(10) when no number is typed)
handle_command(command) ==
  LET cmd_lower == lower(strip(command))
      parts     == split(command)
      Result(r, c) == [returns |-> r, calls |-> c]
  IN  IF cmd_lower \in {<<"e","x","i","t">>, <<"q","u","i","t">>, <<"q">>}
        THEN Result("exit", NoCall)
      ELSE IF cmd_lower \in {<<"h","e","l","p">>, <<"?">>}
        THEN Result("True", Call("show_help", None))
      ELSE IF cmd_lower = <<"r","e","f","r","e","s","h">>
        THEN Result("True", Call("refresh_schema", None))
      ELSE IF startswith(cmd_lower, <<"h","i","s","t","o","r","y">>)
        THEN IF Len(parts) = 1 THEN Result("True", Call("show_history", <<"1","0">>))
             ELSE IF isdigit(parts[2])
               THEN Result("True", Call("show_history", parts[2]))
             ELSE Result("True", NoCall)
      ELSE IF startswith(cmd_lower, <<"s","e","a","r","c","h"," ">>)
        THEN Result("True", Call("search_history", join(Tail(parts))))
      ELSE IF startswith(cmd_lower, <<"f","a","v","o","r","i","t","e"," ">>) /\ Len(parts) = 2
        THEN IF isdigit(parts[2])
               THEN Result("True", Call("toggle_favorite", parts[2]))
               ELSE Result("ValueError", NoCall)
      ELSE IF startswith(cmd_lower, <<"r","e","p","l","a","y"," ">>) /\ Len(parts) = 2
        THEN IF isdigit(parts[2])
               THEN Result("True", Call("replay_query", parts[2]))
               ELSE Result("ValueError", NoCall)
      ELSE IF startswith(cmd_lower, <<"e","x","p","o","r","t"," ">>)
        THEN Result("True", Call("export_last_result",
                               IF Len(parts) > 1 THEN parts[2] ELSE <<"e","x","c","e","l">>))
      ELSE IF cmd_lower = <<"t","e","m","p","l","a","t","e","s">>
        THEN Result("True", Call("show_templates", None))
      ELSE IF cmd_lower \in {<<"s","t","a","t","s">>, <<"p","e","r","f","o","r","m","a","n","c","e">>}
        THEN Result("True", Call("format_report", None))
      ELSE IF cmd_lower = <<"i","n","s","i","g","h","t","s">>
        THEN Result("True", Call("toggle_insights", None))
      ELSE Result("False", NoCall)

\* the values of MAX_RETRY_ATTEMPTS in the environment: not set, "1"
ConfiguredRetries == { None, <<"1">> }

\* the lines typed at the prompt: a question, the commands of the help text
\* with and without their arguments, and an empty line
Lines ==
  { <<"q","?">>,
    <<" ">>,
    <<"e","x","i","t">>,
    <<"Q","u","i","t">>,
    <<"h","e","l","p">>,
    <<"r","e","f","r","e","s","h">>,
    <<"h","i","s","t","o","r","y"," ","5">>,
    <<"h","i","s","t","o","r","y"," ","x">>,
    <<"s","e","a","r","c","h"," ","a">>,
    <<"f","a","v","o","r","i","t","e"," ","1">>,
    <<"f","a","v","o","r","i","t","e"," ","2">>,
    <<"f","a","v","o","r","i","t","e"," ","x">>,
    <<"r","e","p","l","a","y"," ","1">>,
    <<"r","e","p","l","a","y"," ","7">>,
    <<"e","x","p","o","r","t"," ","j","s","o","n">>,
    <<"s","t","a","t","s">>,
    <<"i","n","s","i","g","h","t","s">> }

\* lines 561-566: what handle_command answers to each line, stripped as
\* interactive_loop strips it
dispatch == [raw \in Lines |-> handle_command(strip(raw))]

\* -------------------------------------------------- PerformanceMonitor
\* end_query recording also when no timer is running
end_query_unguarded(metrics, start, query, rows_returned, success) ==
  [query_metrics |-> Append(metrics,
     [query |-> query, rows_returned |-> rows_returned, success |-> success]),
   current_query_start |-> "None"]

\* end_query: nothing is recorded when no timer is running; else one metric
\* is appended and the timer cleared
end_query(metrics, start, query, rows_returned, success) ==
  IF start = "None"
    THEN [query_metrics |-> metrics, current_query_start |-> start]
    ELSE [query_metrics |-> Append(metrics,
            [query |-> query, rows_returned |-> rows_returned, success |-> success]),
          current_query_start |-> "None"]

\* --------------------------------------------------------- QueryHistory
\* toggle_favorite setting the flag instead of flipping it
toggle_favorite_sets(rows, query_id) ==
  IF query_id \notin 1..Len(rows)
    THEN [history |-> rows, returns |-> "False"]
    ELSE [history |-> [rows EXCEPT ![query_id].is_favorite = TRUE],
          returns |-> "True"]

\* QueryHistory.toggle_favorite: the table afterwards and the value returned
toggle_favorite(rows, query_id) ==
  IF query_id \notin 1..Len(rows)
    THEN [history |-> rows, returns |-> "False"]
    ELSE LET new_status == ~rows[query_id].is_favorite
         IN  [history |-> [rows EXCEPT ![query_id].is_favorite = new_status],
              returns |-> IF new_status THEN "True" ELSE "False"]

\* ------------------------------------------------------- BackupDBAgent
\* the application after initialize(): the agent is built, the history
\* table is empty, nothing has been asked
InitApp ==
  /\ pc = "Idle"
  /\ schema_context = SchemaText
  /\ user_query = None
  /\ max_retries = 0
  /\ attempt = 0
  /\ previous_sql = None
  /\ error_message = None
  /\ sql = Unbound
  /\ df = Unbound
  /\ outcome = [kind |-> "pending"]
  /\ log = IdleFrame.log
  /\ suspended = IdleFrame
  /\ finished = {}
  /\ model_name = ModelName
  /\ base_url = BaseUrl
  /\ app_pc = "prompt"
  /\ MAX_RETRY_ATTEMPTS \in ConfiguredRetries
  /\ history = <<>>
  /\ last_result = NoResult
  /\ current_query_folder = 0
  /\ folders = <<>>
  /\ query_metrics = <<>>
  /\ current_query_start = "None"
  /\ show_insights = TRUE
  /\ user_input = None
  /\ handled = <<>>

\* the names of execute_with_retry's frame
run_frame == <<pc, user_query, max_retries, attempt, previous_sql, error_message,
           sql, df, outcome, log>>

\* the call of execute_with_retry is over: its frame is gone
FrameDiscarded ==
  /\ pc' = "Idle"
  /\ user_query' = None
  /\ max_retries' = 0
  /\ attempt' = 0
  /\ previous_sql' = None
  /\ error_message' = None
  /\ sql' = Unbound
  /\ df' = Unbound
  /\ outcome' = [kind |-> "pending"]
  /\ log' = IdleFrame.log

\* interactive_loop reads a line and strips it
input(raw) ==
  /\ app_pc = "prompt"
  /\ pc = "Idle"
  /\ user_input' = strip(raw)

\* line 563: an empty line is skipped
empty_line(raw) ==
  /\ input(raw)
  /\ strip(raw) = <<>>
  /\ handled' = <<>>
  /\ UNCHANGED <<run_frame, schema_context, suspended, finished, model_name,
                 base_url, app_pc, MAX_RETRY_ATTEMPTS, history, last_result,
                 current_query_folder, folders, query_metrics,
                 current_query_start, show_insights>>

\* exit, quit, q: the loop ends
exit_command(raw) ==
  /\ input(raw)
  /\ strip(raw) # <<>>
  /\ dispatch[raw].returns = "exit"
  /\ handled' = <<Call("exit", None)>>
  /\ app_pc' = "exited"
  /\ UNCHANGED <<run_frame, schema_context, suspended, finished, model_name,
                 base_url, MAX_RETRY_ATTEMPTS, history, last_result,
                 current_query_folder, folders, query_metrics,
                 current_query_start, show_insights>>

\* the handlers that only print
Displays ==
  {"show_help", "show_history", "search_history", "show_templates", "format_report"}

\* help, history, search, templates, stats: something is printed
display_command(raw) ==
  /\ input(raw)
  /\ strip(raw) # <<>>
  /\ dispatch[raw].returns = "True"
  /\ dispatch[raw].calls.call \in Displays
  /\ handled' = <<dispatch[raw].calls>>
  /\ UNCHANGED <<run_frame, schema_context, suspended, finished, model_name,
                 base_url, app_pc, MAX_RETRY_ATTEMPTS, history, last_result,
                 current_query_folder, folders, query_metrics,
                 current_query_start, show_insights>>

\* lines 383-388: a line that starts with history and goes on with something
\* that is no number is taken as handled, and nothing is called
history_ignored(raw) ==
  /\ input(raw)
  /\ strip(raw) # <<>>
  /\ dispatch[raw].returns = "True"
  /\ dispatch[raw].calls = NoCall
  /\ handled' = <<>>
  /\ UNCHANGED <<run_frame, schema_context, suspended, finished, model_name,
                 base_url, app_pc, MAX_RETRY_ATTEMPTS, history, last_result,
                 current_query_folder, folders, query_metrics,
                 current_query_start, show_insights>>

\* lines 398, 404: int() raises ValueError, which interactive_loop's except
\* Exception reports before it reads the next line
int_raises(raw) ==
  /\ input(raw)
  /\ strip(raw) # <<>>
  /\ dispatch[raw].returns = "ValueError"
  /\ handled' = <<>>
  /\ UNCHANGED <<run_frame, schema_context, suspended, finished, model_name,
                 base_url, app_pc, MAX_RETRY_ATTEMPTS, history, last_result,
                 current_query_folder, folders, query_metrics,
                 current_query_start, show_insights>>

\* refresh: the cache file is removed, the schema read from the database
\* and loaded into the agent
refresh_schema(raw, schema_summary) ==
  /\ input(raw)
  /\ strip(raw) # <<>>
  /\ dispatch[raw].calls.call = "refresh_schema"
  /\ schema_context' = schema_summary
  /\ handled' = <<dispatch[raw].calls>>
  /\ UNCHANGED <<run_frame, suspended, finished, model_name,
                 base_url, app_pc, MAX_RETRY_ATTEMPTS, history, last_result,
                 current_query_folder, folders, query_metrics,
                 current_query_start, show_insights>>

\* favorite <id>: BackupDBAgent.toggle_favorite
toggle_favorite_command(raw) ==
  /\ input(raw)
  /\ strip(raw) # <<>>
  /\ dispatch[raw].calls.call = "toggle_favorite"
  /\ LET c == dispatch[raw].calls
         t == toggle_favorite(history, int(c.arg))
     IN  /\ history' = t.history
         /\ handled' = << [c EXCEPT !.returns = t.returns] >>
  /\ UNCHANGED <<run_frame, schema_context, suspended, finished, model_name,
                 base_url, app_pc, MAX_RETRY_ATTEMPTS, last_result,
                 current_query_folder, folders, query_metrics,
                 current_query_start, show_insights>>

\* insights: the flag is flipped
toggle_insights(raw) ==
  /\ input(raw)
  /\ strip(raw) # <<>>
  /\ dispatch[raw].calls.call = "toggle_insights"
  /\ show_insights' = ~show_insights
  /\ handled' = <<dispatch[raw].calls>>
  /\ UNCHANGED <<run_frame, schema_context, suspended, finished, model_name,
                 base_url, app_pc, MAX_RETRY_ATTEMPTS, history, last_result,
                 current_query_folder, folders, query_metrics,
                 current_query_start>>

\* export <format>: the stored data frame is written into the current query
\* folder; nothing is written when no result is stored
export_last_result(raw) ==
  /\ input(raw)
  /\ strip(raw) # <<>>
  /\ dispatch[raw].calls.call = "export_last_result"
  /\ folders' =
       IF last_result = NoResult THEN folders
       ELSE [folders EXCEPT ![current_query_folder].export = last_result.query_id]
  /\ handled' = <<dispatch[raw].calls>>
  /\ UNCHANGED <<run_frame, schema_context, suspended, finished, model_name,
                 base_url, app_pc, MAX_RETRY_ATTEMPTS, history, last_result,
                 current_query_folder, query_metrics,
                 current_query_start, show_insights>>

\* run_query up to its call of the agent: the timer is started
run_query(question) ==
  /\ Len(query_metrics) < MaxQueries
  /\ current_query_start' = "time"
  /\ user_query' = question
  /\ app_pc' = "run_query"
  /\ UNCHANGED <<pc, max_retries, attempt, previous_sql, error_message, sql,
                 df, outcome, log>>

\* replay that hands the SQL text stored in the history to the store
replay_query_stored_sql(raw) ==
  /\ input(raw)
  /\ strip(raw) # <<>>
  /\ dispatch[raw].calls.call = "replay_query"
  /\ LET c  == dispatch[raw].calls
         id == int(c.arg)
     IN  /\ handled' = <<c>>
         /\ IF id \in 1..Len(history)
              THEN log' = [log EXCEPT !.exec = Append(@,
                      [attempt |-> 0, sql |-> history[id].generated_sql])]
              ELSE UNCHANGED log
  /\ UNCHANGED <<pc, user_query, max_retries, attempt, previous_sql,
                 error_message, sql, df, outcome, app_pc, current_query_start>>
  /\ UNCHANGED <<schema_context, suspended, finished, model_name,
                 base_url, MAX_RETRY_ATTEMPTS, history, last_result,
                 current_query_folder, folders, query_metrics, show_insights>>

\* replay <id>: the stored question is run again as a question; an id that
\* is not in the table is reported
replay_query(raw) ==
  /\ input(raw)
  /\ strip(raw) # <<>>
  /\ dispatch[raw].calls.call = "replay_query"
  /\ LET c  == dispatch[raw].calls
         id == int(c.arg)
     IN  IF id \in 1..Len(history)
           THEN /\ handled' = <<c, Call("run_query", history[id].user_query)>>
                /\ run_query(history[id].user_query)
           ELSE /\ handled' = <<c>>
                /\ UNCHANGED <<run_frame, app_pc, current_query_start>>
  /\ UNCHANGED <<schema_context, suspended, finished, model_name,
                 base_url, MAX_RETRY_ATTEMPTS, history, last_result,
                 current_query_folder, folders, query_metrics, show_insights>>

\* any other line is run as a question
question(raw) ==
  /\ input(raw)
  /\ strip(raw) # <<>>
  /\ dispatch[raw].returns = "False"
  /\ handled' = <<Call("run_query", strip(raw))>>
  /\ run_query(strip(raw))
  /\ UNCHANGED <<schema_context, suspended, finished, model_name,
                 base_url, MAX_RETRY_ATTEMPTS, history, last_result,
                 current_query_folder, folders, query_metrics, show_insights>>

\* line 254: self.sql_agent.execute_with_retry(user_query), max_retries left
\* to its default
run_query_calls_agent ==
  /\ app_pc = "run_query"
  /\ execute_with_retry(user_query, DEFAULT_MAX_RETRIES)

\* lines 256-353: the run returned df, sql.  The metric is recorded; when
\* df holds rows the result files are written into a new folder, the query
\* is added to the history and the result is stored.  fails names the step
\* that raises: the except clause of line 360 then calls end_query again
run_query_succeeded(fails) ==
  /\ app_pc = "run_query"
  /\ pc = "Succeeded"
  /\ fails \in {"nothing", "_save_result_to_file", "add_query"}
  /\ outcome.value[1] = <<>> => fails = "nothing"
  /\ LET result_df  == outcome.value[1]
         result_sql == outcome.value[2]
         recorded == end_query(query_metrics, current_query_start,
                               result_sql, Len(result_df), TRUE)
         saved    == result_df # <<>> /\ fails # "_save_result_to_file"
         logged   == saved /\ fails # "add_query"
         after    == IF fails = "nothing" THEN recorded
                     ELSE end_query(recorded.query_metrics,
                                    recorded.current_query_start, <<>>, 0, FALSE)
         folder   == Len(folders) + 1
         query_id == Len(history) + 1
     IN  /\ query_metrics' = after.query_metrics
         /\ current_query_start' = after.current_query_start
         /\ folders' = IF saved
              THEN Append(folders, [user_query |-> user_query, sql |-> result_sql,
                                    df |-> result_df, export |-> 0])
              ELSE folders
         /\ current_query_folder' = IF saved THEN folder ELSE current_query_folder
         /\ history' = IF logged
              THEN Append(history,
                     [id |-> query_id, user_query |-> user_query,
                      generated_sql |-> result_sql, rows_returned |-> Len(result_df),
                      result_folder |-> folder, is_favorite |-> FALSE])
              ELSE history
         /\ last_result' = IF logged
              THEN [query_id |-> query_id, df |-> result_df, sql |-> result_sql,
                    user_query |-> user_query]
              ELSE last_result
  /\ FrameDiscarded
  /\ app_pc' = "prompt"
  /\ UNCHANGED <<schema_context, suspended, finished, model_name, base_url,
                 MAX_RETRY_ATTEMPTS, show_insights, user_input, handled>>

\* lines 357-362: the run raised; a metric of a failure is recorded
run_query_failed ==
  /\ app_pc = "run_query"
  /\ pc \in {"FailedFatal", "FailedExhausted"}
  /\ LET after == end_query(query_metrics, current_query_start, <<>>, 0, FALSE)
     IN  /\ query_metrics' = after.query_metrics
         /\ current_query_start' = after.current_query_start
  /\ FrameDiscarded
  /\ app_pc' = "prompt"
  /\ UNCHANGED <<schema_context, suspended, finished, model_name, base_url,
                 MAX_RETRY_ATTEMPTS, history, last_result, current_query_folder,
                 folders, show_insights, user_input, handled>>

\* Ctrl-C while execute_with_retry runs: KeyboardInterrupt is no Exception,
\* so neither execute_with_retry (line 237) nor run_query (line 360) catches
\* it; interactive_loop (line 577) does and leaves the loop
KeyboardInterrupt ==
  /\ app_pc = "run_query"
  /\ pc \in {"Loop", "Generating", "Validating", "Executing"}
  /\ pc' = "Interrupted"
  /\ outcome' = [kind |-> "raise", type |-> "KeyboardInterrupt"]
  /\ app_pc' = "exited"
  /\ UNCHANGED <<user_query, max_retries, attempt, previous_sql, error_message,
                 sql, df, log, schema_context, suspended, finished, model_name,
                 base_url, MAX_RETRY_ATTEMPTS, history, last_result,
                 current_query_folder, folders, query_metrics,
                 current_query_start, show_insights, user_input, handled>>

\* what the backends answer while the application runs
AppResponses == {RespSelect, RespFenced, RespDrop}

AppGenerationErrors == { <<"g","1">> }

AppDriverErrors == { <<"e","1">> }

\* what get_schema_summary reads from the database at a refresh
Schemas == { SchemaText }

\* LoopExhausted is left out: max_retries is 3 in every run the application
\* starts, so the range is never empty
NextApp ==
  \/ \E raw \in Lines : empty_line(raw)
  \/ \E raw \in Lines : exit_command(raw)
  \/ \E raw \in Lines : display_command(raw)
  \/ \E raw \in Lines : history_ignored(raw)
  \/ \E raw \in Lines : int_raises(raw)
  \/ \E raw \in Lines, schema_summary \in Schemas : refresh_schema(raw, schema_summary)
  \/ \E raw \in Lines : toggle_favorite_command(raw)
  \/ \E raw \in Lines : toggle_insights(raw)
  \/ \E raw \in Lines : export_last_result(raw)
  \/ \E raw \in Lines : replay_query(raw)
  \/ \E raw \in Lines : question(raw)
  \/ run_query_calls_agent
  \/ NextAttempt
  \/ \E response_text \in AppResponses : chat_returns(response_text)
  \/ \E str_e \in AppGenerationErrors : chat_raises(str_e)
  \/ validate_passes
  \/ validate_raises
  \/ \E frame_returned \in Frames : execute_query_returns(frame_returned)
  \/ \E error_msg \in AppDriverErrors : execute_query_raises(error_msg)
  \/ \E fails \in {"nothing", "_save_result_to_file", "add_query"} :
       run_query_succeeded(fails)
  \/ run_query_failed
  \/ KeyboardInterrupt

SpecApp == InitApp /\ [][NextApp]_vars

\* keyword kw occurs in text t as a whole word, compared without regard to
\* case
HasWholeWord(t, kw) ==
  LET n == Len(kw)
  IN  \E i \in 1..(Len(t) - n + 1) :
        /\ \A j \in 1..n : LowerChar(t[i + j - 1]) = LowerChar(kw[j])
        /\ (i = 1 \/ t[i - 1] \notin WordChars)
        /\ (i + n > Len(t) \/ t[i + n] \notin WordChars)

\* text t holds the two words DROP TABLE, in any case, whitespace between
HasDropTable(t) ==
  \E i \in 1..(Len(t) - 9) :
    /\ \A j \in 1..4 : LowerChar(t[i + j - 1]) = LowerChar(DESTRUCTIVE_KEYWORDS[1][j])
    /\ t[i + 4] \in Whitespace
    /\ \A j \in 1..5 : LowerChar(t[i + 4 + j]) = LowerChar(TableWord[j])
    /\ (i = 1 \/ t[i - 1] \notin WordChars)
    /\ (i + 10 > Len(t) \/ t[i + 10] \notin WordChars)

\* ----------------------------------------------------------------- claims

\* C1: a text returned by the generator that holds a blocked keyword as a
\* whole word, in any letter case, is never handed to the executor.
C1_SafetyIsAbsolute ==
  \A i \in 1..Len(log.genRet) :
    (~log.genRet[i].raised /\ ContainsBlockedWord(log.genRet[i].value))
      => \A j \in 1..Len(log.exec) :
           /\ log.exec[j].attempt # log.genRet[i].attempt
           /\ log.exec[j].sql # log.genRet[i].value

\* a lower-case "drop" came back on a later attempt, after an execution
C1_Witness ==
  /\ pc = "FailedFatal"
  /\ attempt >= 2
  /\ ExecCount >= 1
  /\ TextOf(attempt) = RespDrop
  /\ ContainsBlockedWord(TextOf(attempt))

\* C2: in every state of a run started with max_retries = N the generator
\* has been called at most N times and the executor at most N times (not at
\* all when N is below 1).
C2_BoundedAttempts ==
  pc # "Idle" =>
    /\ GenCount <= Max0(max_retries)
    /\ ExecCount <= Max0(max_retries)
    /\ ExecCount <= GenCount

\* every attempt of the budget was generated, executed and failed
C2_Witness ==
  /\ pc = "FailedExhausted"
  /\ max_retries >= 2
  /\ GenCount = max_retries
  /\ ExecCount = max_retries

\* C3: the request of attempt k > 1 carries the query text and the error
\* message of attempt k-1, and a query text or error message of no earlier
\* attempt, whether attempt k-1 failed in execution or in generation.
C3_HealingFeedsForward ==
  \A k \in 2..GenCount :
    LET p == log.gen[k].prompt
        t == TextOf(k - 1)
        e == ErrorOf(k - 1)
    IN  /\ PromptHasError(p, e)
        /\ t # None => PromptHasQuery(p, t)
        /\ p.template = "healing" => (p.previous_sql = t /\ p.error_message = e)

\* C4 as stated: a violation on attempt k means exactly k generator calls
\* and exactly k-1 executor calls.
C4_FatalShortCircuitOriginal ==
  \A i \in Violations :
    /\ GenCount = log.val[i].attempt
    /\ ExecCount = log.val[i].attempt - 1

\* C4 amended: a violation on attempt k means exactly k generator calls, one
\* executor call for each of the attempts 1..k-1 that did not end in a
\* generation error, and none for attempt k.
C4_FatalShortCircuit ==
  \A i \in Violations :
    LET k == log.val[i].attempt
    IN  /\ GenCount = k
        /\ ExecCount = (k - 1) - Cardinality({j \in 1..(k - 1) : GenRaised(j)})
        /\ \A j \in 1..(k - 1) : ExecRaised(j) <=> ~GenRaised(j)
        /\ \A j \in 1..ExecCount : log.exec[j].attempt # k

\* a violation on attempt 3 after one generation error and one execution error
C4_Witness ==
  /\ Violations # {}
  /\ attempt = 3
  /\ \E j \in 1..2 : GenRaised(j)
  /\ \E j \in 1..2 : ExecRaised(j)

\* C5: once the validator has reported a violation the run is in its fatal
\* final state and no generator, validator or executor call follows.
C5_FatalIsTerminal ==
  [][Violations # {} =>
       /\ pc = "FailedFatal"
       /\ pc' = "FailedFatal"
       /\ log' = log
       /\ outcome' = outcome]_vars

\* a violation with budget left
C5_Witness ==
  /\ pc = "FailedFatal"
  /\ Violations # {}
  /\ attempt >= 1
  /\ attempt < max_retries
  /\ outcome.type = "SafetyViolationError"

C7_Exhausted ==
  /\ (max_retries >= 1 /\ \A j \in 1..max_retries : Failed(j))
       => pc = "FailedExhausted"
  /\ pc = "FailedExhausted" =>
       /\ \A j \in 1..max_retries : Failed(j)
       /\ outcome.kind = "raise" /\ outcome.type = "Exception"
       /\ outcome.attempts = max_retries
       /\ outcome.last_error = ErrorOf(max_retries)
       /\ GenCount = max_retries

\* three failures, of both kinds, the last message unlike the one before
C7_Witness ==
  /\ pc = "FailedExhausted"
  /\ max_retries = 3
  /\ \E j \in 1..3 : GenRaised(j)
  /\ \E j \in 1..3 : ExecRaised(j)
  /\ ErrorOf(3) # ErrorOf(2)

\* the last query text a run generated (None: it generated none)
LastQueryTried ==
  LET got == {k \in 1..Len(log.genRet) : ~log.genRet[k].raised}
  IN  IF got = {} THEN None
      ELSE log.genRet[CHOOSE k \in got : \A j \in got : j <= k].value

\* C8 as stated: the exhausted-retries error holds the last query text tried.
C8_ExhaustedHasQueryOriginal ==
  (pc = "FailedExhausted" /\ LastQueryTried # None)
    => Contains(outcome.last_error, LastQueryTried)

\* C8 amended: the exhausted-retries error holds the last error message and
\* the number of attempts made, and nothing else: no query text of its own.
C8_ExhaustedContent ==
  pc = "FailedExhausted" =>
    /\ DOMAIN outcome = {"kind", "type", "attempts", "last_error"}
    /\ outcome.attempts = Len(log.genRet)
    /\ outcome.attempts = attempt
    /\ outcome.last_error = error_message
    /\ outcome.last_error = ErrorOf(attempt)

\* exhausted after a query was tried that the last message does not quote
C8_Witness ==
  /\ pc = "FailedExhausted"
  /\ attempt >= 2
  /\ LastQueryTried = RespSelect
  /\ ~Contains(outcome.last_error, LastQueryTried)

\* C9: a run that has ended has a success value (rows and query text), a
\* safety violation naming a keyword, or the exhausted-retries error with the
\* last error message and the attempt count.
C9_ThreeOutcomes ==
  pc \in Terminal =>
    \/ /\ outcome.kind = "return"
       /\ outcome.value # None
       /\ Len(outcome.value) = 2
    \/ /\ outcome.kind = "raise"
       /\ outcome.type = "SafetyViolationError"
       /\ outcome.keyword \in Range(DESTRUCTIVE_KEYWORDS)
    \/ /\ outcome.kind = "raise"
       /\ outcome.type = "Exception"
       /\ outcome.attempts = max_retries
       /\ outcome.last_error = error_message

\* C10: after a generation error on attempt k < max_retries the request of
\* attempt k+1 carries that error's message, for k = 1 as for k > 1.
C10_GenerationErrorCarried ==
  \A k \in 1..Len(log.genRet) :
    (GenRaised(k) /\ k < max_retries /\ GenCount > k)
      => PromptHasError(log.gen[k + 1].prompt, log.genRet[k].value)

\* the prior-attempt context a prompt embeds
Context(p) ==
  IF p.template = "healing" THEN <<p.previous_sql, p.error_message>>
  ELSE <<None, None>>

\* C11 as stated: after a generation error on attempt k < max_retries the
\* request of attempt k+1 carries the same prior query text and prior error
\* message as the request of attempt k.
C11_SameContextResentOriginal ==
  \A k \in 1..Len(log.genRet) :
    (GenRaised(k) /\ GenCount > k)
      => Context(log.gen[k + 1].prompt) = Context(log.gen[k].prompt)

\* C11 amended: after a generation error on attempt k < max_retries the
\* generation call of attempt k+1 is given the same prior query text as the
\* call of attempt k, and as prior error message the message of that
\* generation error, not the one given for attempt k; a healing request built
\* from them embeds exactly these two.
C11_ContextAfterGenerationError ==
  \A k \in 1..Len(log.genRet) :
    (GenRaised(k) /\ GenCount > k) =>
      LET g == log.gen[k + 1]
      IN  /\ k < max_retries
          /\ g.previous_sql = log.gen[k].previous_sql
          /\ g.error_message = log.genRet[k].value
          /\ g.prompt.template = "healing" =>
               /\ g.prompt.previous_sql = log.gen[k].previous_sql
               /\ g.prompt.error_message = log.genRet[k].value

\* attempt 2 failed in generation and the healing request of attempt 3 holds
\* another error message than the healing request of attempt 2
C11_Witness ==
  /\ GenCount >= 3
  /\ GenRaised(2)
  /\ log.gen[2].prompt.template = "healing"
  /\ log.gen[3].prompt.template = "healing"
  /\ log.gen[3].prompt.error_message # log.gen[2].prompt.error_message

\* C12: when generation fails before any attempt of the run has produced a
\* query text, the next request has no prior-query field.
C12_NoQueryFieldBeforeAnyText ==
  \A k \in 1..(GenCount - 1) :
    (\A j \in 1..k : GenRaised(j)) =>
      LET g == log.gen[k + 1]
      IN  /\ g.previous_sql = None
          /\ g.prompt.template = "initial"
          /\ "previous_sql" \notin DOMAIN g.prompt

\* two generation errors with a message, then the request of attempt 3
C12_Witness ==
  /\ GenCount = 3
  /\ GenRaised(1) /\ GenRaised(2)
  /\ log.genRet[1].value # <<>>
  /\ log.genRet[2].value # <<>>
  /\ sql = Unbound

\* C13: a retryable failure on attempt k < max_retries does not end the run
\* and is not raised to the caller; the generator call of attempt k+1
\* follows, and the only errors the caller sees are the safety violation and
\* the exhausted-retries error.
C13_RetryableAbsorbed ==
  /\ [](/\ \A k \in 1..Len(log.genRet) :
             (Failed(k) /\ k < max_retries) => (GenCount > k \/ pc = "Loop")
        /\ outcome.kind = "raise" =>
             \/ outcome.type = "SafetyViolationError"
             \/ /\ outcome.type = "Exception"
                /\ outcome.attempts = max_retries
                /\ Failed(max_retries))
  /\ \A k \in 1..MaxRetriesBound :
       (Failed(k) /\ k < max_retries) ~> (GenCount > k)

\* a generation error and an execution error, each followed by a new request
C13_Witness ==
  /\ GenCount = 3
  /\ \E j \in 1..2 : GenRaised(j)
  /\ \E j \in 1..2 : ExecRaised(j)
  /\ outcome.kind = "pending"

\* C14: the attempt numbers of a run are 1, 2, 3, ... without a gap, none
\* above max_retries, and at most one of the generator call, the validation
\* and the executor call is under way.
C14_OneAttemptInFlight ==
  LET genFlight  == GenCount - Len(log.genRet)
      execFlight == ExecCount - Len(log.execRet)
      validating == IF pc = "Validating" THEN 1 ELSE 0
  IN  /\ \A i \in 1..GenCount : log.gen[i].attempt = i /\ i <= max_retries
      /\ \A i \in 1..Len(log.genRet) : log.genRet[i].attempt = i
      /\ attempt = GenCount
      /\ genFlight \in {0, 1}
      /\ execFlight \in {0, 1}
      /\ genFlight + execFlight + validating <= 1
      /\ genFlight = 1 <=> pc = "Generating"
      /\ execFlight = 1 <=> pc = "Executing"

\* the last attempt of the budget is at the store
C14_Witness ==
  /\ pc = "Executing"
  /\ attempt = 3
  /\ max_retries = 3

\* C15: every executor call comes, in its attempt, after a generator call
\* that returned the text executed and a validation that let that text pass;
\* executor calls <= validations passed <= generator calls.
C15_GenerateValidateExecute ==
  LET passed == {i \in 1..Len(log.val) : log.val[i].keyword = None}
  IN  /\ \A j \in 1..ExecCount :
           LET a == log.exec[j].attempt
           IN  /\ a <= Len(log.genRet)
               /\ ~log.genRet[a].raised
               /\ log.genRet[a].value = log.exec[j].sql
               /\ \E i \in passed :
                    log.val[i].attempt = a /\ log.val[i].sql = log.exec[j].sql
               /\ validate_sql_safety(log.exec[j].sql) = None
      /\ ExecCount <= Cardinality(passed)
      /\ Cardinality(passed) <= GenCount

\* two executions of two texts
C15_Witness ==
  /\ ExecCount = 2
  /\ log.exec[1].sql # log.exec[2].sql
  /\ log.exec[2].sql # <<>>
  /\ pc = "Executing"

\* C16: when every generator call and every executor call comes back, every
\* run reaches Succeeded, Failed(fatal) or Failed(exhausted).
C16_Terminates ==
  <>(pc \in {"Succeeded", "FailedFatal", "FailedExhausted"})

\* C17: generate_safe_sql builds the healing request, holding the prior
\* query text and the prior error message as they are, exactly when a prior
\* attempt (query text and error message) is supplied, the empty text
\* included, and the initial request exactly when none is supplied.
C17_HealingIffPriorAttempt ==
  \A i \in 1..GenCount :
    LET g        == log.gen[i]
        supplied == g.previous_sql # None /\ g.error_message # None
    IN  /\ g.prompt.template = "healing" <=> supplied
        /\ g.prompt.template = "initial" <=> ~supplied
        /\ g.prompt.template = "healing" =>
             /\ g.prompt.previous_sql = g.previous_sql
             /\ g.prompt.error_message = g.error_message

\* C18: validate_sql_safety returns for a text exactly when no blocked
\* keyword occurs in it as a whole word, compared without regard to case,
\* and raises a SafetyViolationError exactly when one does.
C18_ValidatorMatchesReference ==
  /\ pc = "Returned" => ~ContainsBlockedWord(sql) /\ outcome.kind = "return"
  /\ pc = "Raised" =>
       /\ ContainsBlockedWord(sql)
       /\ outcome.kind = "raise"
       /\ outcome.type = "SafetyViolationError"

\* a keyword in mixed case between a bracket and a quote was rejected
C18_Witness ==
  /\ pc = "Raised"
  /\ sql = <<"(">> \o alternating(DESTRUCTIVE_KEYWORDS[3]) \o <<"'">>

\* C19: the SafetyViolationError names one keyword of the blocked list, that
\* keyword occurs in the rejected text as a whole word in some letter case,
\* and a text that holds the words DROP TABLE is rejected naming DROP.
C19_KeywordIdentified ==
  /\ pc = "Raised" =>
       /\ outcome.keyword \in Range(DESTRUCTIVE_KEYWORDS)
       /\ HasWholeWord(sql, outcome.keyword)
  /\ (pc # "validate_sql_safety" /\ HasDropTable(sql)) =>
       /\ pc = "Raised"
       /\ outcome.keyword = DESTRUCTIVE_KEYWORDS[1]

\* a text that holds DELETE before DROP TABLE was rejected
C19_Witness ==
  /\ pc = "Raised"
  /\ HasDropTable(sql)
  /\ HasWholeWord(sql, DESTRUCTIVE_KEYWORDS[2])

\* the call that is running, as a record like suspended
running ==
  [pc |-> pc, user_query |-> user_query, max_retries |-> max_retries,
   attempt |-> attempt, previous_sql |-> previous_sql,
   error_message |-> error_message, sql |-> sql, df |-> df,
   outcome |-> outcome, log |-> log]

\* the error message attempt k of the call with log L ended with
ErrorIn(L, k) ==
  IF k <= Len(L.genRet) /\ L.genRet[k].raised THEN L.genRet[k].value
  ELSE IF \E j \in 1..Len(L.execRet) : L.execRet[j].attempt = k /\ L.execRet[j].raised
    THEN L.execRet[CHOOSE j \in 1..Len(L.execRet) : L.execRet[j].attempt = k].value
  ELSE None

\* the query text generated last before attempt k of the call with log L
LastTextBefore(L, k) ==
  LET made == {j \in 1..(k - 1) : j <= Len(L.genRet) /\ ~L.genRet[j].raised}
  IN  IF made = {} THEN None
      ELSE L.genRet[CHOOSE j \in made : \A i \in made : i <= j].value

\* the requests, the attempt ordinals and the outcome of call f follow from
\* its own question, its own max_retries and its own attempts
OwnRun(f) ==
  LET L == f.log
  IN  /\ f.attempt = Len(L.gen)
      /\ Len(L.gen) <= Max0(f.max_retries)
      /\ \A k \in 1..Len(L.gen) :
           LET prev_sql == IF k = 1 THEN None ELSE LastTextBefore(L, k)
               error    == IF k = 1 THEN None ELSE ErrorIn(L, k - 1)
           IN  /\ L.gen[k].attempt = k
               /\ L.gen[k].previous_sql = prev_sql
               /\ L.gen[k].error_message = error
               /\ L.gen[k].prompt =
                    build_prompt(schema_context, f.user_query, prev_sql, error)
      /\ Len(L.gen) >= 1 =>
           /\ L.gen[1].prompt = _build_initial_prompt(schema_context, f.user_query)
           /\ L.gen[1].prompt.template = "initial"
      /\ f.pc = "Succeeded" =>
           f.outcome = [kind |-> "return",
                        value |-> <<L.execRet[Len(L.execRet)].value,
                                    L.genRet[f.attempt].value>>]
      /\ f.pc = "FailedFatal" =>
           /\ f.outcome.kind = "raise"
           /\ f.outcome.keyword = validate_sql_safety(L.genRet[f.attempt].value)
      /\ f.pc = "FailedExhausted" =>
           f.outcome = exhausted_error(f.max_retries, ErrorIn(L, f.attempt))

\* C20: of two calls interleaved on one agent, each one's requests, attempt
\* ordinals and outcome follow from its own question and its own attempts;
\* the first request of every call is the initial one, with no prior query
\* and no prior error, whatever calls ended before and however.
C20_RunsIndependent == OwnRun(running) /\ OwnRun(suspended)

\* after a call on the agent ended exhausted and one ended on a violation,
\* both calls are in their second attempt, with different questions and
\* different errors carried
C20_Witness ==
  /\ {"FailedExhausted", "FailedFatal"} \subseteq finished
  /\ attempt = 2
  /\ suspended.attempt = 2
  /\ user_query # suspended.user_query
  /\ error_message # suspended.error_message
  /\ pc = "Generating"
  /\ suspended.pc = "Generating"

\* text t up to the first place where one of the explanation markers starts
UpToFirstMarker(t) ==
  LET starts == {i \in 1..Len(t) : \E k \in 1..Len(separators) : IsAt(separators[k], t, i)}
  IN  IF starts = {} THEN t
      ELSE SubSeq(t, 1, (CHOOSE i \in starts : \A j \in starts : i <= j) - 1)

\* C24: from a response that is a fenced block around a query text Q, with
\* no language tag or with any tag (sql, SQL, tsql), _extract_sql gives Q
\* trimmed, holding neither a fence nor the tag; from a response without a
\* fence it gives the trimmed text up to the first explanation marker.
C24_FencedBlockStripped ==
  pc = "Extracted" =>
    /\ \A tag \in Tags, w1 \in { <<"\n">>, <<" ">> }, Q \in EnclosedQueries,
          w2 \in { <<>>, <<"\n">> } :
          sql = Fence \o tag \o w1 \o Q \o w2 \o Fence =>
            /\ outcome.value = strip(Q)
            /\ ~Contains(outcome.value, Fence)
    /\ ~Contains(sql, Fence) => outcome.value = strip(UpToFirstMarker(strip(sql)))

\* C29: what _extract_sql gives has no whitespace at either end and holds
\* none of the three explanation markers, and _extract_sql applied to it
\* gives it back unchanged.
C29_ExtractIdempotent ==
  /\ pc \in {"Extracted", "ExtractedAgain"} =>
       /\ outcome.value = strip(outcome.value)
       /\ \A k \in 1..Len(separators) : Find(separators[k], outcome.value, 1) = 0
  /\ pc = "ExtractedAgain" => outcome.value = sql

\* the text taken out of a fenced block, two lines long, has been passed to
\* _extract_sql again
C29_Witness ==
  /\ pc = "ExtractedAgain"
  /\ sql = <<"a","\n","b">>

\* the stages of a call of execute_with_retry that has not ended
InRun == {"Loop", "Generating", "Validating", "Executing"}

\* C21: no step of a run of execute_with_retry, from its call to its end in
\* any outcome, changes the agent's schema context, model name or backend
\* address, the history table or the performance records.
C21_RunWritesNothing ==
  [][(pc \in InRun \/ (pc = "Idle" /\ pc' = "Loop")) =>
       UNCHANGED <<schema_context, model_name, base_url, history, query_metrics>>]_vars

\* a run has just succeeded in an application whose history and performance
\* records already hold an earlier query
C21_Witness ==
  /\ pc = "Succeeded"
  /\ app_pc = "run_query"
  /\ Len(history) = 1
  /\ Len(query_metrics) = 1

\* C22: an interrupt delivered while a run is in progress ends the run and
\* the session with no later Generator or Executor call, and leaves nothing
\* of the aborted run in the application: the history and the stored result
\* are those of completed queries, no performance record was added and no
\* query timer is pending.
C22_InterruptLeavesNothing ==
  pc = "Interrupted" =>
    /\ app_pc = "exited"
    /\ \A i \in 1..Len(history) :
         \E j \in 1..Len(query_metrics) :
           /\ query_metrics[j].success
           /\ query_metrics[j].query = history[i].generated_sql
    /\ last_result # NoResult => last_result.query_id \in 1..Len(history)
    /\ \A j \in 1..Len(query_metrics) :
         query_metrics[j].success \/ query_metrics[j].query = <<>>
    /\ current_query_start = "None"

\* C23: every run the application starts has as its max_retries the value
\* of MAX_RETRY_ATTEMPTS, and 3 only when the variable is not set.
C23_ConfiguredRetriesUsed ==
  (app_pc = "run_query" /\ pc # "Idle") =>
    max_retries = (IF MAX_RETRY_ATTEMPTS = None THEN 3 ELSE int(MAX_RETRY_ATTEMPTS))

\* the command of the help text that line is, by its first word and what
\* follows it: exit/quit, help, refresh, history [N], search <keyword>,
\* favorite <id>, replay <id>, export <format>, templates, stats, insights;
\* "None" when the line is none of them
ListedCommand(line) ==
  LET parts == split(lower(line))
      one   == Len(parts) = 1
      two   == Len(parts) = 2
  IN  IF parts = <<>> THEN "None"
      ELSE IF one /\ parts[1] \in {<<"e","x","i","t">>, <<"q","u","i","t">>} THEN "exit"
      ELSE IF one /\ parts[1] = <<"h","e","l","p">> THEN "show_help"
      ELSE IF one /\ parts[1] = <<"r","e","f","r","e","s","h">> THEN "refresh_schema"
      ELSE IF parts[1] = <<"h","i","s","t","o","r","y">> /\ (one \/ (two /\ isdigit(parts[2])))
        THEN "show_history"
      ELSE IF parts[1] = <<"s","e","a","r","c","h">> /\ ~one THEN "search_history"
      ELSE IF parts[1] = <<"f","a","v","o","r","i","t","e">> /\ two /\ isdigit(parts[2]) THEN "toggle_favorite"
      ELSE IF parts[1] = <<"r","e","p","l","a","y">> /\ two /\ isdigit(parts[2]) THEN "replay_query"
      ELSE IF parts[1] = <<"e","x","p","o","r","t">> /\ two THEN "export_last_result"
      ELSE IF one /\ parts[1] = <<"t","e","m","p","l","a","t","e","s">> THEN "show_templates"
      ELSE IF one /\ parts[1] = <<"s","t","a","t","s">> THEN "format_report"
      ELSE IF one /\ parts[1] = <<"i","n","s","i","g","h","t","s">> THEN "toggle_insights"
      ELSE "None"

\* C25: a line that is one of the listed commands calls the handler of that
\* command first and is not run as a question (replay alone goes on to run
\* the stored question); every other non-empty line is run as a question,
\* once.
C25_OneHandlerPerLine ==
  (user_input # None /\ user_input # <<>>) =>
    IF ListedCommand(user_input) = "None"
      THEN handled = <<Call("run_query", user_input)>>
      ELSE /\ handled # <<>>
           /\ handled[1].call = ListedCommand(user_input)
           /\ Len(handled) = 1 \/ handled[1].call = "replay_query"

\* C26: whatever is typed, a text reaches the executor only in a run of
\* execute_with_retry started by run_query, and only the text that the
\* generator returned and the validator accepted in that same attempt;
\* replay starts a run on the question stored in the history and hands the
\* store nothing itself.
C26_ExecutorOnlyAfterValidation ==
  [][/\ (log'.exec # log.exec /\ log'.exec # <<>>) =>
          /\ app_pc = "run_query"
          /\ pc = "Validating"
          /\ Len(log'.exec) = Len(log.exec) + 1
          /\ LET e == log'.exec[Len(log'.exec)]
                 v == log'.val[Len(log'.val)]
             IN  /\ e.attempt = attempt
                 /\ ~log.genRet[attempt].raised
                 /\ e.sql = log.genRet[attempt].value
                 /\ v = [attempt |-> attempt, sql |-> e.sql, keyword |-> None]
                 /\ Len(log'.val) = Len(log.val) + 1
     /\ (app_pc = "prompt" /\ handled' # <<>> /\ handled'[1].call = "replay_query") =>
          /\ log' = log
          /\ (int(handled'[1].arg) \in 1..Len(history)) =>
               /\ app_pc' = "run_query"
               /\ user_query' = history[int(handled'[1].arg)].user_query
    ]_vars

\* a replayed question has its newly generated query at the store, and the
\* query stored in the history for it is another text
C26_Witness ==
  /\ app_pc = "run_query"
  /\ pc = "Executing"
  /\ handled # <<>>
  /\ handled[1].call = "replay_query"
  /\ history[int(handled[1].arg)].generated_sql # sql

\* C27: the performance records change only when a call of run_query ends,
\* and then by exactly one record, success=True when the run succeeded and
\* success=False when it ended in a safety violation or exhausted, also
\* when saving the result or logging it to the history raised after the
\* success was recorded; and then no query timer is pending.
C27_OneMetricPerQuery ==
  [][/\ query_metrics' # query_metrics =>
          (app_pc = "run_query" /\ app_pc' = "prompt")
     /\ (app_pc = "run_query" /\ app_pc' = "prompt") =>
          /\ Len(query_metrics') = Len(query_metrics) + 1
          /\ SubSeq(query_metrics', 1, Len(query_metrics)) = query_metrics
          /\ query_metrics'[Len(query_metrics')].success = (pc = "Succeeded")
          /\ current_query_start' = "None"
    ]_vars

\* the one query run so far succeeded and its result files were written,
\* but logging it to the history raised: one record, of a success
C27_Witness ==
  /\ app_pc = "prompt"
  /\ Len(folders) = 1
  /\ history = <<>>
  /\ Len(query_metrics) = 1
  /\ query_metrics[1].success

\* C28: whenever a result is stored, the current query folder is the folder
\* that result was saved in, and every export file lies in the folder of the
\* query whose result it holds.
C28_ExportIntoOwnFolder ==
  /\ last_result # NoResult =>
       /\ last_result.query_id \in 1..Len(history)
       /\ current_query_folder = history[last_result.query_id].result_folder
  /\ \A f \in 1..Len(folders) :
       folders[f].export # 0 => history[folders[f].export].result_folder = f

\* C30: toggle_favorite on the id of a row flips that row's favorite flag
\* and nothing else, returns the new flag, and a second toggle gives the
\* table back as it was; on an id that has no row it leaves the table as it
\* is.
C30_ToggleFlipsOne ==
  [][(app_pc = "prompt" /\ handled' # <<>> /\ handled'[1].call = "toggle_favorite") =>
       LET id == int(handled'[1].arg)
       IN  IF id \in 1..Len(history)
             THEN /\ Len(history') = Len(history)
                  /\ history'[id].is_favorite = ~history[id].is_favorite
                  /\ handled'[1].returns =
                       (IF history'[id].is_favorite THEN "True" ELSE "False")
                  /\ [history'[id] EXCEPT !.is_favorite = history[id].is_favorite]
                       = history[id]
                  /\ \A i \in 1..Len(history) : i # id => history'[i] = history[i]
                  /\ toggle_favorite(history', id).history = history
             ELSE history' = history
    ]_vars

\* of two rows the second has been made a favorite, then made none again by
\* a second toggle, and the first row was never one
C30_Witness ==
  /\ Len(history) = 2
  /\ handled # <<>>
  /\ handled[1].call = "toggle_favorite"
  /\ int(handled[1].arg) = 2
  /\ handled[1].returns = "False"
  /\ ~history[1].is_favorite
  /\ ~history[2].is_favorite

====
